---- MODULE Spec2Model ----
(***************************************************************************)
(* ebcfetch: the claim ingestion pipeline.                                  *)
(*                                                                         *)
(* One polling cycle of main(): fetchNewClaims (search, batch selection,    *)
(* the fetch task feeding the buffered message channel, the per-message     *)
(* loop, the recovery rule after a fetch-stream error), then the two        *)
(* acknowledge calls of safelyFlagSkippedEmails, then the sleep.            *)
(*                                                                         *)
(* Strings are sequences of one-character strings.  A subject is given by   *)
(* the submatch list the configured pattern yields for it (ff, with ff[1]   *)
(* the whole match, as Go's ff[0]); the empty list means no match.          *)
(***************************************************************************)
EXTENDS Integers, Sequences, FiniteSets, TLC

\* ---------------------------------------------------------------- bounds
MaxUid == 3          \* UIDs 1..MaxUid exist in the mailbox
MaxCycles == 3       \* polling cycles explored
MaxPhotos == 1       \* attachments carried by one message
MaxPhotoRows == 1    \* photo rows stored over the whole run
MaxTok == 5          \* longest time token built from TokChars
MaxGroups == 5       \* most capture groups a configured pattern has

\* ------------------------------------------------------ program constants
maxTries == 10

UIDs == 1..MaxUid

\* ------------------------------------------------------------ characters
Digits == <<"0", "1", "2", "3", "4", "5", "6", "7", "8", "9">>

IsDigit(c) == \E i \in 1..10 : Digits[i] = c

DigitVal(c) == (CHOOSE i \in 1..10 : Digits[i] = c) - 1

AllDigits(s) == \A i \in 1..Len(s) : IsDigit(s[i])

RECURSIVE DigitsValue(_)
DigitsValue(s) ==
  IF Len(s) = 0 THEN 0
  ELSE DigitsValue(SubSeq(s, 1, Len(s) - 1)) * 10 + DigitVal(s[Len(s)])

\* strconv.Atoi with the error dropped: 0 for anything but a digit run
Atoi(s) == IF Len(s) > 0 /\ AllDigits(s) THEN DigitsValue(s) ELSE 0

LowerOf == [c \in {"A", "B", "Q", "R", "X", "Z"} |->
              CASE c = "A" -> "a" [] c = "B" -> "b" [] c = "Q" -> "q"
                [] c = "R" -> "r" [] c = "X" -> "x" [] c = "Z" -> "z"]

UpperOf == [c \in {"a", "b", "q", "r", "x", "z"} |->
              CASE c = "a" -> "A" [] c = "b" -> "B" [] c = "q" -> "Q"
                [] c = "r" -> "R" [] c = "x" -> "X" [] c = "z" -> "Z"]

ToUpper(s) == [i \in 1..Len(s) |-> IF s[i] \in DOMAIN UpperOf THEN UpperOf[s[i]] ELSE s[i]]

ToLower(s) == [i \in 1..Len(s) |-> IF s[i] \in DOMAIN LowerOf THEN LowerOf[s[i]] ELSE s[i]]

EqualFold(a, b) == ToLower(a) = ToLower(b)

\* strings.ReplaceAll(s, c, "")
RECURSIVE Strip(_, _)
Strip(s, c) ==
  IF Len(s) = 0 THEN <<>>
  ELSE IF Head(s) = c THEN Strip(Tail(s), c)
  ELSE <<Head(s)>> \o Strip(Tail(s), c)

\* the digit run at the head of y
RECURSIVE LeadingDigits(_)
LeadingDigits(y) ==
  IF Len(y) = 0 \/ ~IsDigit(Head(y)) THEN <<>>
  ELSE <<Head(y)>> \o LeadingDigits(Tail(y))

\* regexp `[^\d]*(\d+)`: the first digit run of x, empty when x has no digit
RECURSIVE FirstDigitRun(_)
FirstDigitRun(x) ==
  IF Len(x) = 0 THEN <<>>
  ELSE IF IsDigit(Head(x)) THEN LeadingDigits(x)
  ELSE FirstDigitRun(Tail(x))

extractEntrantID(x) == Atoi(FirstDigitRun(x))

\* time.ParseInLocation(time.RFC3339, t): YYYY-MM-DDTHH:MM:SS then Z or +HH:MM
Rfc3339Shape(t) ==
  /\ Len(t) \in {20, 25}
  /\ \A i \in {1, 2, 3, 4, 6, 7, 9, 10, 12, 13, 15, 16, 18, 19} : IsDigit(t[i])
  /\ t[5] = "-" /\ t[8] = "-" /\ t[11] = "T" /\ t[14] = ":" /\ t[17] = ":"
  /\ IF Len(t) = 20 THEN t[20] = "Z"
     ELSE /\ t[20] \in {"+", "-"}
          /\ IsDigit(t[21]) /\ IsDigit(t[22]) /\ t[23] = ":"
          /\ IsDigit(t[24]) /\ IsDigit(t[25])

Rfc3339Ok(t) ==
  /\ Rfc3339Shape(t)
  /\ Atoi(SubSeq(t, 6, 7)) \in 1..12
  /\ Atoi(SubSeq(t, 9, 10)) \in 1..31
  /\ Atoi(SubSeq(t, 12, 13)) < 24
  /\ Atoi(SubSeq(t, 15, 16)) < 60
  /\ Atoi(SubSeq(t, 18, 19)) < 60

\* the zero value of fourFields
ZeroF4 ==
  [ok |-> FALSE, EntrantID |-> 0, BonusID |-> <<>>, OdoReading |-> 0,
   OdoOk |-> FALSE, ClaimTimeSet |-> FALSE, HHmm |-> <<>>, TimeOk |-> FALSE,
   TimeHH |-> 0, TimeMM |-> 0, Extra |-> <<>>]

\* (mutant) the minute is not range-checked and any length is taken
TimeFields_NoRange(tok) ==
  LET hm0 == Strip(Strip(tok, ":"), ".")
      hmx == IF Len(hm0) < 4 THEN <<"0">> \o hm0 ELSE hm0
      hm  == Atoi(hmx)
  IN  [ClaimTimeSet |-> FALSE, HHmm |-> hmx, TimeHH |-> hm \div 100, TimeMM |-> hm % 100,
       TimeOk |-> AllDigits(hmx) /\ hm \div 100 < 24]

\* (mutant) hour and minute are split at the wrong digit
TimeFields_Split(tok) ==
  LET hm0 == Strip(Strip(tok, ":"), ".")
      hmx == IF Len(hm0) < 4 THEN <<"0">> \o hm0 ELSE hm0
      hm  == Atoi(hmx)
  IN  [ClaimTimeSet |-> FALSE, HHmm |-> hmx, TimeHH |-> hm \div 10, TimeMM |-> hm % 10,
       TimeOk |-> Len(hmx) = 4 /\ AllDigits(hmx) /\ hm \div 10 < 24 /\ hm % 10 < 60]

\* the time part of parseSubject: the fields set from the time token ff[4]
TimeFields(tok) ==
  IF Rfc3339Ok(tok)
  THEN LET hh == Atoi(SubSeq(tok, 12, 13))
           mm == Atoi(SubSeq(tok, 15, 16))
       IN  [ClaimTimeSet |-> TRUE, HHmm |-> tok, TimeHH |-> hh, TimeMM |-> mm,
            TimeOk |-> hh < 24 /\ mm < 60]
  ELSE LET hm0 == Strip(Strip(tok, ":"), ".")
           hmx == IF Len(hm0) < 4 THEN <<"0">> \o hm0 ELSE hm0
           hm  == Atoi(hmx)
           hh  == hm \div 100
           mm  == hm % 100
       IN  [ClaimTimeSet |-> FALSE, HHmm |-> hmx, TimeHH |-> hh, TimeMM |-> mm,
            TimeOk |-> Len(hmx) = 4 /\ AllDigits(hmx) /\ hh < 24 /\ mm < 60]

\* parseSubject(s, formal), s given by its submatch list ff (ff[1] is Go's ff[0])
parseSubject(ff, formal) ==
  LET ok0 == Len(ff) > 0 /\ ~(formal /\ Len(ff) < 5)
  IN
  IF ~ok0 THEN ZeroF4
  ELSE LET f1 == [ZeroF4 EXCEPT !.ok = TRUE,
                                !.EntrantID = extractEntrantID(ff[2]),
                                !.BonusID = ToUpper(ff[3])]
       IN
       IF Len(ff) < 5 THEN f1
       ELSE LET tf == TimeFields(ff[5])
            IN  [f1 EXCEPT !.OdoReading = Atoi(ff[4]),
                           !.OdoOk = Len(ff[4]) > 0 /\ AllDigits(ff[4]),
                           !.ClaimTimeSet = tf.ClaimTimeSet,
                           !.HHmm = tf.HHmm,
                           !.TimeHH = tf.TimeHH,
                           !.TimeMM = tf.TimeMM,
                           !.TimeOk = tf.TimeOk,
                           !.ok = tf.TimeOk,
                           !.Extra = IF Len(ff) > 5 THEN ff[6] ELSE <<>>]

\* Go indexes ff[1] and ff[2] once f4.ok is set: a lenient pattern with fewer
\* than two capture groups makes the index run out of range
parseSubjectPanics(ff, formal) == ~formal /\ Len(ff) \in {1, 2}

\* ------------------------------------------------------------- the store
\* table entrants, in row order; Email is the parsed address list of the row
Entrants ==
  << [EntrantID |-> 1, RiderName |-> <<"R">>, Email |-> << <<"r", "@", "x">> >>, TeamID |-> 0],
     [EntrantID |-> 2, RiderName |-> <<"Q">>, Email |-> << >>, TeamID |-> 0],
     [EntrantID |-> 3, RiderName |-> << >>, Email |-> << <<"r", "@", "x">> >>, TeamID |-> 0] >>

\* table bonuses: BonusID -> BriefDesc
Bonuses == [b \in { <<"B", "1">>, <<"B", "B", "1">> } |-> <<"b">>]

\* cfg.ImapLogin, the monitored mailbox address
ImapLogin == <<"b", "@", "x">>

\* fetchTeamID: TeamID of the first row with that EntrantID, 0 when none
fetchTeamID(eid) ==
  LET idx == {i \in 1..Len(Entrants) : Entrants[i].EntrantID = eid}
  IN  IF idx = {} THEN 0
      ELSE Entrants[CHOOSE i \in idx : \A j \in idx : i <= j].TeamID

\* the rows SELECTed by validateEntrant, in table order
RECURSIVE SelectRows(_, _, _)
SelectRows(rows, eid, team) ==
  IF Len(rows) = 0 THEN <<>>
  ELSE LET r == Head(rows)
           hit == r.EntrantID = eid \/ (team > 0 /\ r.TeamID = team)
       IN  (IF hit THEN <<r>> ELSE <<>>) \o SelectRows(Tail(rows), eid, team)

\* the addresses of the selected rows, concatenated
RECURSIVE RowEmails(_)
RowEmails(rows) ==
  IF Len(rows) = 0 THEN <<>> ELSE Head(rows).Email \o RowEmails(Tail(rows))

\* listValidTestAddresses: every address of the table
listValidTestAddresses == RowEmails(Entrants)

\* strings.FieldsFunc(a, '@')[0]: the text before the first '@'
RECURSIVE LocalPart(_)
LocalPart(a) ==
  IF Len(a) = 0 \/ Head(a) = "@" THEN <<>>
  ELSE <<Head(a)>> \o LocalPart(Tail(a))

\* (mutant) the address loop compares whole addresses only
RECURSIVE MatchLoop_Exact(_, _, _)
MatchLoop_Exact(myE, from, ok) ==
  IF Len(myE) = 0 THEN ok
  ELSE LET em  == Head(myE)
           ok1 == ok \/ EqualFold(from, ImapLogin)
           ok2 == ok1 \/ EqualFold(em, from)
       IN  IF ok2 THEN TRUE ELSE MatchLoop_Exact(Tail(myE), from, ok2)

\* the address loop of validateEntrant: ok after comparing from with myE in order
RECURSIVE MatchLoop(_, _, _)
MatchLoop(myE, from, ok) ==
  IF Len(myE) = 0 THEN ok
  ELSE LET em  == Head(myE)
           ok1 == ok \/ EqualFold(from, ImapLogin)
           ok2 == ok1 \/ EqualFold(em, from)
           ok3 == IF ok2 THEN TRUE ELSE EqualFold(LocalPart(em), LocalPart(from))
       IN  IF ok3 THEN TRUE ELSE MatchLoop(Tail(myE), from, ok3)

\* (mutant) validateEntrant compares addresses whatever cfg.MatchEmail says
validateEntrant_Match(f4, from, TestMode, MatchEmail, qerr) ==
  LET team == fetchTeamID(f4.EntrantID)
      rows == SelectRows(Entrants, f4.EntrantID, team)
      ok   == MatchLoop(RowEmails(rows), from, FALSE)
  IN  IF qerr \/ Len(rows) = 0 THEN <<FALSE, FALSE>>
      ELSE <<TRUE, ok /\ ~EqualFold(rows[1].RiderName, <<>>)>>

\* validateEntrant(f4, from): <<ve, vea>>; qerr is the entrant query failing
validateEntrant(f4, from, TestMode, MatchEmail, qerr) ==
  LET team == fetchTeamID(f4.EntrantID)
      rows == SelectRows(Entrants, f4.EntrantID, team)
      ok0  == ~MatchEmail
      myE  == IF TestMode /\ ~MatchEmail THEN listValidTestAddresses
              ELSE RowEmails(rows)
      ok   == IF ~ok0 \/ TestMode
              THEN MatchLoop(myE, from, IF TestMode THEN FALSE ELSE ok0)
              ELSE ok0
  IN  IF qerr \/ Len(rows) = 0 THEN <<FALSE, FALSE>>
      ELSE <<TRUE, ok /\ ~EqualFold(rows[1].RiderName, <<>>)>>

\* validateBonus(f4): the bonus description, empty when the bonus is unknown
validateBonus(f4, qerr) ==
  IF qerr \/ f4.BonusID \notin DOMAIN Bonuses THEN <<>> ELSE Bonuses[f4.BonusID]

\* ------------------------------------------------------------ the inputs
\* subjects, as the submatch lists of the configured lenient pattern
SubjNoMatch == <<>>

SubjGood == << <<"*">>, <<"1">>, <<"b", "1">>, <<"3">>, <<"1", "2", "3", "4">> >>

\* "1A BB1 123456 20099"
SubjBadTime ==
  << <<"*">>, <<"1", "A">>, <<"B", "B", "1">>, <<"1", "2", "3", "4", "5", "6">>,
     <<"2", "0", "0", "9", "9">> >>

SubjNoBonus == << <<"*">>, <<"1">>, <<"z", "z">>, <<"3">>, <<"9", ":", "3", "0">> >>

SubjNoEntrant == << <<"*">>, <<"9">>, <<"b", "1">>, <<"3">>, <<"1", "2", "3", "4">> >>

Subjects == {SubjNoMatch, SubjGood, SubjBadTime, SubjNoBonus, SubjNoEntrant}

Froms == { <<"r", "@", "x">>, <<"q", "@", "z">> }

\* what Fetch delivers for one UID: body is what GetBody and Parse make of it
\* ("nil": no body section, "bad": MIME parse error, "ok": an Email)
Contents ==
  [body : {"nil", "bad"}, Subject : {SubjNoMatch}, From : { <<"q", "@", "z">> }, att : {0}]
  \cup [body : {"ok"}, Subject : Subjects, From : Froms, att : 0..MaxPhotos]

\* cfg, as far as the cycle reads it (address matching is on in every run)
Configs == [TestMode : BOOLEAN, MatchEmail : {TRUE}, MaxFetch : {0, 2}]

\* cfg.SelectFlags: the search asks for messages having none of these
SelectFlags == {"Seen", "Flagged"}

\* ------------------------------------------------------------- the state
VARIABLES
  cfg,          \* the configuration in force
  flags,        \* mailbox: UID -> set of flags
  claimRows,    \* table ebclaims: UID (EmailID) -> number of rows
  photoCount,   \* table ebcphotos: number of committed rows
  pc,           \* where main() is: "idle", "loop", "recv", "ackD", "ackS", "sleep"
  cycle,        \* cycles started
  seqset,       \* the UIDs requested from Fetch in this cycle
  Nmax,         \* number of messages requested
  N,            \* number of messages taken from the channel
  currentUid,   \* global
  lastGoodUid,  \* global
  dealtwith,    \* set built by fetchNewClaims
  skipped,      \* set built by fetchNewClaims
  toFetch,      \* fetch task: UIDs still to deliver, in mailbox order
  fpc,          \* fetch task: "off", "run", "closed", "sent"
  fres,         \* what c.Fetch returned: "nil" or "err"
  messages,     \* the buffered channel of fetched messages (their UIDs)
  msgClosed,    \* the channel has been closed by Fetch
  done,         \* the result channel: "none", "nil", "err"
  n,            \* safelyFlagSkippedEmails: tries left
  seen,         \* UIDs taken from the channel in this cycle
  recorded,     \* UIDs whose INSERT succeeded in this cycle
  released,     \* UIDs added by the recovery rule in this cycle
  body,         \* the locals of the loop iteration in progress (stepwise view)
  files,        \* the image folder: the files on disk, as <<photoid, kind>>
  replies,      \* test responses sent: UID -> number of sendTestResponse calls
  call,         \* a function called on its own: the arguments of the call
  ret           \* how that call ended (st) and what it returned

vars ==
  <<cfg, flags, claimRows, photoCount, pc, cycle, seqset, Nmax, N, currentUid,
    lastGoodUid, dealtwith, skipped, toFetch, fpc, fres, messages, msgClosed,
    done, n, seen, recorded, released, body, files, replies, call, ret>>

mailVars == <<flags>>
dbVars == <<claimRows, photoCount>>
fetchVars == <<toFetch, fpc, fres, messages, msgClosed, done>>
cycleVars == <<seqset, Nmax, N, currentUid, lastGoodUid, dealtwith, skipped>>
ghostVars == <<seen, recorded, released>>
bodyVars == <<body, files, replies>>
parseVars == <<call, ret>>

\* the locals of one iteration of the message loop, before any is set
NoCur ==
  [stage |-> "none", ok |-> FALSE, ve |-> FALSE, vea |-> FALSE,
   vb |-> FALSE, photosok |-> FALSE, numphotos |-> 0, stored |-> 0,
   insert |-> "none", live |-> FALSE]

\* no iteration in progress
NoBody ==
  [stage |-> "none", att |-> 0, emb |-> 0, photosok |-> TRUE, numphotos |-> 0,
   photoid |-> 0, silent |-> FALSE, parsed |-> {}, parts |-> 0, ids |-> 0]

\* no parseSubject call in progress
NoCall == [ff |-> <<>>, formal |-> FALSE]

\* parseSubject has not returned
NoRet == [st |-> "none", f4 |-> ZeroF4]

\* the polling loop is what runs: nothing else is in progress
Quiet ==
  /\ body = NoBody
  /\ files = {}
  /\ replies = [u \in UIDs |-> 0]
  /\ call = NoCall
  /\ ret = NoRet

InitMain ==
  /\ cfg \in Configs
  /\ flags = [u \in UIDs |-> {}]
  /\ claimRows = [u \in UIDs |-> 0]
  /\ photoCount = 0
  /\ pc = "idle"
  /\ cycle = 0
  /\ seqset = {}
  /\ Nmax = 0
  /\ N = 0
  /\ currentUid = 0
  /\ lastGoodUid = 0
  /\ dealtwith = {}
  /\ skipped = {}
  /\ toFetch = <<>>
  /\ fpc = "off"
  /\ fres = "nil"
  /\ messages = <<>>
  /\ msgClosed = FALSE
  /\ done = "none"
  /\ n = 0
  /\ seen = {}
  /\ recorded = {}
  /\ released = {}

Init == InitMain /\ Quiet

\* --------------------------------------------------------- fetchNewClaims
\* the elements of a set of numbers in ascending order
RECURSIVE Ascending(_)
Ascending(S) ==
  IF S = {} THEN <<>>
  ELSE LET m == CHOOSE x \in S : \A y \in S : x <= y
       IN  <<m>> \o Ascending(S \ {m})

\* c.Search(criteria): the UIDs carrying none of cfg.SelectFlags
Search == Ascending({u \in UIDs : flags[u] \cap SelectFlags = {}})

\* (mutant) the batch is capped one message too late
Batch_OneMore(uids, MaxFetch) ==
  IF MaxFetch < 1 \/ Len(uids) <= MaxFetch THEN uids
  ELSE SubSeq(uids, 1, MaxFetch + 1)

\* the batch: every search result, or the first cfg.MaxFetch of them
Batch(uids, MaxFetch) ==
  IF MaxFetch < 1 \/ Len(uids) <= MaxFetch THEN uids
  ELSE SubSeq(uids, 1, MaxFetch)

Range(q) == {q[i] : i \in 1..Len(q)}

\* (mutant) the test looks at the entrant lookup only
Rejected_EntrantOnly(f4, ve, vea, vb, TestMode) == ~ve /\ ~TestMode

\* the test that ends the iteration with the message in dealtwith
Rejected(f4, ve, vea, vb, TestMode) == ~vea /\ ~TestMode

\* processImages in the message loop: failAt is the attachment whose read or
\* image write fails (0: none does)
processImages(att, failAt, TestMode) ==
  IF failAt = 0 \/ failAt > att
  THEN [photosok |-> TRUE, numphotos |-> att,
        stored |-> IF TestMode THEN 0 ELSE att]
  ELSE [photosok |-> FALSE, numphotos |-> failAt,
        stored |-> IF TestMode THEN 0 ELSE failAt - 1]

\* (mutant) a failed INSERT counts the message as dealt with
InsertFailed_DealtWith(u, dw, sk, lg) == <<dw \cup {u}, sk, lg>>

\* where a failed INSERT puts the message: <<dealtwith, skipped, lastGoodUid>>
InsertFailed(u, dw, sk, lg) == <<dw, sk \cup {u}, lg>>

\* (mutant) a successful INSERT does not move lastGoodUid
InsertDone_Keep(u, dw, sk, lg) == <<dw, sk, lg>>

\* where a successful INSERT leaves them
InsertDone(u, dw, sk, lg) == <<dw, sk, u>>

\* one iteration of the message loop for a message with content c: the locals
\* it ends with; qe, qb: the entrant and bonus queries fail; ierr: the claim
\* INSERT fails
Iteration(c, qe, qb, failAt, ierr, TestMode, MatchEmail) ==
  IF c.body # "ok"
  THEN [NoCur EXCEPT !.stage = IF c.body = "nil" THEN "nobody" ELSE "parseerr",
                     !.live = ~TestMode]
  ELSE
    LET f4  == parseSubject(c.Subject, FALSE)
        v   == validateEntrant(f4, c.From, TestMode, MatchEmail, qe)
        ve  == v[1]
        vea == v[2]
        vb  == validateBonus(f4, qb)
        base == [NoCur EXCEPT !.ok = f4.ok, !.ve = ve, !.vea = vea,
                              !.vb = (vb # <<>>), !.live = ~TestMode]
    IN
    IF Rejected(f4, ve, vea, vb, TestMode)
    THEN [base EXCEPT !.stage = "rejected"]
    ELSE
      LET ph == processImages(c.att, failAt, TestMode)
          b2 == [base EXCEPT !.photosok = ph.photosok, !.numphotos = ph.numphotos,
                             !.stored = ph.stored]
      IN
      IF TestMode THEN [b2 EXCEPT !.stage = "tested"]
      ELSE IF ierr THEN [b2 EXCEPT !.stage = "insert", !.insert = "failed"]
      ELSE [b2 EXCEPT !.stage = "insert", !.insert = "ok"]

\* every way one iteration can end, per configuration
Iterations ==
  [TestMode \in BOOLEAN, MatchEmail \in BOOLEAN |->
     {Iteration(x[1], x[2], x[3], x[4], x[5], TestMode, MatchEmail) :
        x \in {y \in Contents \X BOOLEAN \X BOOLEAN \X (0..MaxPhotos) \X BOOLEAN :
                 /\ y[4] <= y[1].att
                 /\ y[1].body # "ok" => ~y[2] /\ ~y[3] /\ ~y[5]}}]

\* (mutant) the recovery rule compares with >=
Recovery_Inclusive(cu, lg, nmax, nseen) ==
  {cu + i : i \in {j \in 0..(nmax - nseen) : cu + j >= lg}}

\* the recovery rule after a fetch error: the UIDs it adds to skipped
\* (uint32 sums; no UID of the model is near the wrap)
Recovery(cu, lg, nmax, nseen) ==
  {cu + i : i \in {j \in 0..(nmax - nseen) : cu + j > lg}}

\* ---------------------------------------------------------------- actions
\* fetchNewClaims returns nil, nil: dial, login, select or search failed
ConnectFail ==
  /\ pc = "idle"
  /\ cycle < MaxCycles
  /\ cycle' = cycle + 1
  /\ pc' = "ackD"
  /\ n' = maxTries
  /\ dealtwith' = {}
  /\ skipped' = {}
  /\ seqset' = {}
  /\ Nmax' = 0
  /\ N' = 0
  /\ seen' = {}
  /\ recorded' = {}
  /\ released' = {}
  /\ UNCHANGED <<bodyVars, parseVars>>
  /\ UNCHANGED <<cfg, mailVars, dbVars, fetchVars, currentUid, lastGoodUid>>

\* the search finds nothing: fetchNewClaims returns nil, nil
SearchEmpty ==
  /\ pc = "idle"
  /\ cycle < MaxCycles
  /\ Search = <<>>
  /\ cycle' = cycle + 1
  /\ pc' = "ackD"
  /\ n' = maxTries
  /\ dealtwith' = {}
  /\ skipped' = {}
  /\ seqset' = {}
  /\ Nmax' = 0
  /\ N' = 0
  /\ seen' = {}
  /\ recorded' = {}
  /\ released' = {}
  /\ UNCHANGED <<bodyVars, parseVars>>
  /\ UNCHANGED <<cfg, mailVars, dbVars, fetchVars, currentUid, lastGoodUid>>

\* search, select the batch, make the channels and start the fetch task
StartFetch ==
  /\ pc = "idle"
  /\ cycle < MaxCycles
  /\ Search # <<>>
  /\ LET b == Batch(Search, cfg.MaxFetch)
     IN  /\ seqset' = Range(b)
         /\ Nmax' = Len(b)
         /\ toFetch' = b
  /\ cycle' = cycle + 1
  /\ pc' = "loop"
  /\ N' = 0
  /\ dealtwith' = {}
  /\ skipped' = {}
  /\ fpc' = "run"
  /\ fres' = "nil"
  /\ messages' = <<>>
  /\ msgClosed' = FALSE
  /\ done' = "none"
  /\ seen' = {}
  /\ recorded' = {}
  /\ released' = {}
  /\ UNCHANGED <<bodyVars, parseVars>>
  /\ UNCHANGED <<cfg, mailVars, dbVars, currentUid, lastGoodUid, n>>

\* (mutant) the message channel is two short of the batch
Capacity_Short(nmax) == nmax - 2

\* make(chan *imap.Message, Nmax+1): the capacity of the message channel
Capacity(nmax) == nmax + 1

\* the fetch task: the server sends the next message (marking it Seen) and
\* Fetch pushes it into the channel, whose capacity is Nmax + 1
FetchDeliver ==
  /\ fpc = "run"
  /\ toFetch # <<>>
  /\ Len(messages) < Capacity(Nmax)
  /\ flags' = [flags EXCEPT ![Head(toFetch)] = @ \cup {"Seen"}]
  /\ messages' = Append(messages, Head(toFetch))
  /\ toFetch' = Tail(toFetch)
  /\ UNCHANGED <<bodyVars, parseVars>>
  /\ UNCHANGED <<cfg, dbVars, pc, cycle, cycleVars, fpc, fres, msgClosed, done, n, ghostVars>>

\* the fetch task: every message was sent, Fetch closes the channel and returns nil
FetchReturnOk ==
  /\ fpc = "run"
  /\ toFetch = <<>>
  /\ fpc' = "closed"
  /\ fres' = "nil"
  /\ msgClosed' = TRUE
  /\ UNCHANGED <<bodyVars, parseVars>>
  /\ UNCHANGED <<cfg, mailVars, dbVars, pc, cycle, cycleVars, toFetch, messages, done, n, ghostVars>>

\* the fetch task: the stream fails, Fetch closes the channel and returns the
\* error; the server may have read (and marked Seen) one more message that
\* never reached the client
FetchReturnErr ==
  /\ fpc = "run"
  /\ \E lost \in BOOLEAN :
       flags' = IF lost /\ toFetch # <<>>
                THEN [flags EXCEPT ![Head(toFetch)] = @ \cup {"Seen"}]
                ELSE flags
  /\ fpc' = "closed"
  /\ fres' = "err"
  /\ msgClosed' = TRUE
  /\ UNCHANGED <<bodyVars, parseVars>>
  /\ UNCHANGED <<cfg, dbVars, pc, cycle, cycleVars, toFetch, messages, done, n, ghostVars>>

\* the fetch task: done <- result (the result channel has capacity 1)
FetchSendDone ==
  /\ fpc = "closed"
  /\ done = "none"
  /\ done' = fres
  /\ fpc' = "sent"
  /\ UNCHANGED <<bodyVars, parseVars>>
  /\ UNCHANGED <<cfg, mailVars, dbVars, pc, cycle, cycleVars, toFetch, fres, messages, msgClosed, n, ghostVars>>

\* one iteration of for msg := range messages, ending as it says
Process(it) ==
  /\ pc = "loop"
  /\ messages # <<>>
  /\ photoCount + it.stored <= MaxPhotoRows
  /\ LET u   == Head(messages)
         ins == IF it.insert = "failed"
                THEN InsertFailed(u, dealtwith, skipped, lastGoodUid)
                ELSE IF it.insert = "ok"
                THEN InsertDone(u, dealtwith, skipped, lastGoodUid)
                ELSE <<dealtwith, skipped, lastGoodUid>>
     IN  /\ currentUid' = u
         /\ N' = N + 1
         /\ messages' = Tail(messages)
         /\ seen' = seen \cup {u}
         /\ dealtwith' = IF it.stage = "rejected" THEN dealtwith \cup {u} ELSE ins[1]
         /\ skipped' = ins[2]
         /\ lastGoodUid' = ins[3]
         /\ photoCount' = photoCount + it.stored
         /\ claimRows' = [claimRows EXCEPT ![u] = IF it.insert = "ok" THEN @ + 1 ELSE @]
         /\ recorded' = IF it.insert = "ok" THEN recorded \cup {u} ELSE recorded
  /\ UNCHANGED <<bodyVars, parseVars>>
  /\ UNCHANGED <<cfg, mailVars, pc, cycle, seqset, Nmax, toFetch, fpc, fres, msgClosed, done, n, released>>

ProcessMsg == \E it \in Iterations[cfg.TestMode, cfg.MatchEmail] : Process(it)

\* (mutant) the range loop ends as soon as the channel is empty
LoopExit_Open ==
  /\ pc = "loop"
  /\ messages = <<>>
  /\ pc' = "recv"
  /\ UNCHANGED <<bodyVars, parseVars>>
  /\ UNCHANGED <<cfg, mailVars, dbVars, cycle, cycleVars, fetchVars, n, ghostVars>>

\* the channel is closed and drained: the range loop ends
LoopExit ==
  /\ pc = "loop"
  /\ messages = <<>>
  /\ msgClosed
  /\ pc' = "recv"
  /\ UNCHANGED <<bodyVars, parseVars>>
  /\ UNCHANGED <<cfg, mailVars, dbVars, cycle, cycleVars, fetchVars, n, ghostVars>>

\* err := <-done; on an error the recovery rule runs; fetchNewClaims returns
RecvDone ==
  /\ pc = "recv"
  /\ done # "none"
  /\ LET add == IF done = "err" THEN Recovery(currentUid, lastGoodUid, Nmax, N) ELSE {}
     IN  /\ skipped' = skipped \cup add
         /\ released' = add
  /\ done' = "none"
  /\ fpc' = "off"
  /\ pc' = "ackD"
  /\ n' = maxTries
  /\ UNCHANGED <<bodyVars, parseVars>>
  /\ UNCHANGED <<cfg, mailVars, dbVars, cycle, seqset, Nmax, N, currentUid, lastGoodUid,
                 dealtwith, toFetch, fres, messages, msgClosed, seen, recorded>>

\* ------------------------------------------------------------ acknowledge
\* (mutant) the store removes \Flagged (or adds it) and keeps the other flags
UidStore_Keep(ss, ignoreThem) ==
  [u \in UIDs |-> IF u \in ss
                  THEN (IF ignoreThem THEN flags[u] \cup {"Flagged"} ELSE flags[u] \ {"Flagged"})
                  ELSE flags[u]]

\* UidStore(ss, SetFlags, flags): the listed messages get exactly these flags
UidStore(ss, ignoreThem) ==
  [u \in UIDs |-> IF u \in ss THEN (IF ignoreThem THEN {"Flagged"} ELSE {}) ELSE flags[u]]

\* main(): safelyFlagSkippedEmails(dflags, true) then (sflags, false), then sleep
AckSet == IF pc = "ackD" THEN dealtwith ELSE skipped

AckNext == IF pc = "ackD" THEN "ackS" ELSE "sleep"

\* safelyFlagSkippedEmails returns at once: test mode, or a nil or empty set
SafelyReturn ==
  /\ pc \in {"ackD", "ackS"}
  /\ cfg.TestMode \/ AckSet = {}
  /\ pc' = AckNext
  /\ n' = maxTries
  /\ UNCHANGED <<bodyVars, parseVars>>
  /\ UNCHANGED <<cfg, mailVars, dbVars, cycle, cycleVars, fetchVars, ghostVars>>

\* flagSkippedEmails succeeds
FlagOk ==
  /\ pc \in {"ackD", "ackS"}
  /\ ~cfg.TestMode /\ AckSet # {}
  /\ flags' = UidStore(AckSet, pc = "ackD")
  /\ pc' = AckNext
  /\ n' = maxTries
  /\ UNCHANGED <<bodyVars, parseVars>>
  /\ UNCHANGED <<cfg, dbVars, cycle, cycleVars, fetchVars, ghostVars>>

\* (mutant) the loop breaks one try later
GiveUp_Late(k) == k < 0

\* n--; if n < 1 { break }: k is n after the decrement
GiveUp(k) == k < 1

\* flagSkippedEmails fails: one try less, and after the last one give up
FlagFail ==
  /\ pc \in {"ackD", "ackS"}
  /\ ~cfg.TestMode /\ AckSet # {}
  /\ IF GiveUp(n - 1)
     THEN pc' = AckNext /\ n' = maxTries
     ELSE pc' = pc /\ n' = n - 1
  /\ UNCHANGED <<bodyVars, parseVars>>
  /\ UNCHANGED <<cfg, mailVars, dbVars, cycle, cycleVars, fetchVars, ghostVars>>

\* time.Sleep, then refreshConfig: test mode may have been switched
Sleep ==
  /\ pc = "sleep"
  /\ pc' = "idle"
  /\ \E tm \in BOOLEAN : cfg' = [cfg EXCEPT !.TestMode = tm]
  /\ UNCHANGED <<bodyVars, parseVars>>
  /\ UNCHANGED <<mailVars, dbVars, cycle, cycleVars, fetchVars, n, ghostVars>>

Next ==
  \/ ConnectFail
  \/ SearchEmpty
  \/ StartFetch
  \/ FetchDeliver
  \/ FetchReturnOk
  \/ FetchReturnErr
  \/ FetchSendDone
  \/ ProcessMsg
  \/ LoopExit
  \/ RecvDone
  \/ SafelyReturn
  \/ FlagOk
  \/ FlagFail
  \/ Sleep

Spec == Init /\ [][Next]_vars

\* the same program when c.Fetch returns and the Go scheduler lets the fetch
\* goroutine and fetchNewClaims run
SpecLive ==
  /\ Init /\ [][Next]_vars
  /\ WF_vars(FetchDeliver \/ FetchReturnOk \/ FetchReturnErr)
  /\ WF_vars(FetchSendDone)
  /\ WF_vars(ProcessMsg)
  /\ WF_vars(LoopExit)
  /\ WF_vars(RecvDone)

TypeOK ==
  /\ cfg \in Configs
  /\ pc \in {"idle", "loop", "recv", "ackD", "ackS", "sleep"}
  /\ N <= Nmax
  /\ dealtwith \subseteq UIDs

\* ----------------------------------------------------------- parseSubject
\* the characters time tokens are built from
TokChars == {"0", "2", "6", ":", "."}

\* the time tokens of the tests, and two full timestamps
Tok1234 == <<"1", "2", "3", "4">>
Tok930 == <<"9", "3", "0">>
Tok9c30 == <<"9", ":", "3", "0">>
Tok5 == <<"5">>
Tok20099 == <<"2", "0", "0", "9", "9">>
TokIso == <<"2", "0", "2", "3", "-", "0", "2", "-", "0", "1", "T", "0", "7", ":", "1", "5", ":", "0", "0", "+", "0", "3", ":", "0", "0">>
TokIsoBad == <<"2", "0", "2", "3", "-", "0", "2", "-", "0", "1", "T", "2", "5", ":", "1", "5", ":", "0", "0", "Z">>

Tokens ==
  UNION {[1..k -> TokChars] : k \in 1..MaxTok}
    \cup {Tok1234, Tok930, Tok9c30, Tok5, Tok20099, TokIso, TokIsoBad, <<>>}

\* FindStringSubmatch for a pattern with g capture groups that matches: the
\* whole match, then entrant, bonus, odometer, time token and what follows
Submatches(g, tok) ==
  [i \in 1..(g + 1) |->
     CASE i = 1 -> <<"*">>
       [] i = 2 -> <<"1">>
       [] i = 3 -> <<"2">>
       [] i = 4 -> <<"3">>
       [] i = 5 -> tok
       [] OTHER -> <<"x">>]

\* the calls explored: no match, and a match of a pattern with g groups
ParseCalls ==
  [ff : {<<>>} \cup {Submatches(g, <<>>) : g \in 0..3}
               \cup {Submatches(g, t) : g \in 4..MaxGroups, t \in Tokens},
   formal : BOOLEAN]

ParseInit ==
  /\ InitMain
  /\ ~cfg.TestMode /\ cfg.MaxFetch = 0
  /\ body = NoBody
  /\ files = {}
  /\ replies = [u \in UIDs |-> 0]
  /\ call \in ParseCalls
  /\ ret = NoRet

\* the call runs to its return, or panics
parseSubjectCall ==
  /\ ret.st = "none"
  /\ ret' = IF parseSubjectPanics(call.ff, call.formal)
            THEN [st |-> "panic", f4 |-> ZeroF4]
            ELSE [st |-> "returned", f4 |-> parseSubject(call.ff, call.formal)]
  /\ UNCHANGED <<cfg, mailVars, dbVars, pc, cycle, cycleVars, fetchVars, n, ghostVars,
                 bodyVars, call>>

ParseNext == parseSubjectCall

SpecParse == ParseInit /\ [][ParseNext]_vars

\* ------------------------------------------- the message loop, step by step
\* The loop body in finer steps than Process: the lookups up to the rejection
\* test, then one step per attachment (read, then writeImage), then the test
\* response or the INSERT.  A panic leaves pc = "crashed": the process is gone.

\* m.Header.Get("From") that mail.ParseAddress cannot parse: v is nil
NoAddress == <<>>

BodyContents ==
  [body : {"nil", "bad"}, Subject : {SubjNoMatch}, From : {NoAddress}, att : {0}, emb : {0}]
  \cup [body : {"ok"}, Subject : Subjects, From : Froms \cup {NoAddress},
        att : 0..MaxPhotos, emb : 0..MaxPhotos]

BodyConfigs == [TestMode : BOOLEAN, MatchEmail : BOOLEAN, MaxFetch : {0}]

\* extractDateOfResentClaim panics when its query fails; it is called when
\* the subject gave no full timestamp
ResendPanics(f4, qerr) == ~f4.ClaimTimeSet /\ qerr

\* validateEntrant panics: listValidTestAddresses on a query error (lerr), or
\* v.Address read with v nil, in the address loop or in the closing Printf
validateEntrantPanics(f4, from, TestMode, MatchEmail, qerr, lerr, silent) ==
  LET team == fetchTeamID(f4.EntrantID)
      rows == SelectRows(Entrants, f4.EntrantID, team)
      myE  == IF TestMode /\ ~MatchEmail THEN listValidTestAddresses
              ELSE RowEmails(rows)
  IN  \/ TestMode /\ ~MatchEmail /\ lerr
      \/ /\ ~qerr /\ Len(rows) > 0
         /\ from = NoAddress
         /\ MatchEmail \/ TestMode
         /\ Len(myE) > 0 \/ ~silent

\* how one writeImage call can fail
WriteFailures == {"none", "begin", "insert", "write", "convert"}

\* (mutant) writeImage does not look at cfg.TestMode
writeImage_Always(TestMode, conv, fail, stale, partial, rows) ==
  [photoid |-> rows + 1, rows |-> rows + 1, add |-> {<<rows + 1, "orig">>}]

\* writeImage: the photoid returned, the committed rows of ebcphotos after the
\* call and the files it leaves in the image folder.  conv: the image is
\* converted (cfg.ConvertHeic and not a .jpg); stale: what last_insert_rowid()
\* gives when the INSERT (whose error is ignored) failed; partial: a failed
\* write or conversion left its output file behind
writeImage(TestMode, conv, fail, stale, partial, rows) ==
  LET id == IF fail = "insert" THEN stale ELSE rows + 1
      x  == <<id, "orig">>
      y  == <<id, "jpg">>
  IN
  IF TestMode \/ fail = "begin"
  THEN [photoid |-> 0, rows |-> rows, add |-> {}]
  ELSE IF fail = "write"
  THEN [photoid |-> 0, rows |-> rows, add |-> IF partial THEN {x} ELSE {}]
  ELSE IF conv /\ fail = "convert"
  THEN [photoid |-> 0, rows |-> rows, add |-> IF partial THEN {x, y} ELSE {x}]
  ELSE [photoid |-> id,
        rows |-> IF fail = "insert" THEN rows ELSE rows + 1,
        add |-> IF conv THEN {x, y} ELSE {x}]

BodyInit ==
  /\ cfg \in BodyConfigs
  /\ flags = [u \in UIDs |-> {"Seen"}]
  /\ claimRows = [u \in UIDs |-> 0]
  /\ photoCount = 0
  /\ pc = "loop"
  /\ cycle = 1
  /\ seqset = UIDs
  /\ Nmax = MaxUid
  /\ N = 0
  /\ currentUid = 0
  /\ lastGoodUid = 0
  /\ dealtwith = {}
  /\ skipped = {}
  /\ toFetch = <<>>
  /\ fpc = "sent"
  /\ fres = "nil"
  /\ messages = Ascending(UIDs)
  /\ msgClosed = TRUE
  /\ done = "nil"
  /\ n = 0
  /\ seen = {}
  /\ recorded = {}
  /\ released = {}
  /\ body = NoBody
  /\ files = {}
  /\ replies = [u \in UIDs |-> 0]
  /\ call = NoCall
  /\ ret = NoRet

\* the loop body up to the rejection test, for a message with content c: how
\* it ends ("unparsed", "panic", "rejected", or "images": on to processImages)
\* qr, qe, qb, ql: the resend, entrant, bonus and address-list queries fail
BeginOutcome(c, qr, qe, qb, ql, silent, TestMode, MatchEmail) ==
  LET f4 == parseSubject(c.Subject, FALSE)
      v  == validateEntrant(f4, c.From, TestMode, MatchEmail, qe)
      vb == validateBonus(f4, qb)
      o  == [stage |-> "unparsed", att |-> 0, emb |-> 0, silent |-> silent]
  IN  IF c.body # "ok" THEN o
      ELSE IF \/ ResendPanics(f4, qr)
              \/ validateEntrantPanics(f4, c.From, TestMode, MatchEmail, qe, ql, silent)
      THEN [o EXCEPT !.stage = "panic"]
      ELSE IF Rejected(f4, v[1], v[2], vb, TestMode)
      THEN [o EXCEPT !.stage = "rejected"]
      ELSE [o EXCEPT !.stage = "images", !.att = c.att, !.emb = c.emb]

\* every way the first part of the body can end, per configuration
BeginOutcomes ==
  [TestMode \in BOOLEAN, MatchEmail \in BOOLEAN |->
     {BeginOutcome(x[1], x[2], x[3], x[4], x[5], x[6], TestMode, MatchEmail) :
        x \in BodyContents \X BOOLEAN \X BOOLEAN \X BOOLEAN \X BOOLEAN \X BOOLEAN}]

\* the loop takes the next message and runs up to the rejection test
BeginMessage ==
  /\ pc = "loop"
  /\ body.stage # "images"
  /\ messages # <<>>
  /\ \E o \in BeginOutcomes[cfg.TestMode, cfg.MatchEmail] :
       LET u == Head(messages)
       IN  /\ currentUid' = u
           /\ N' = N + 1
           /\ messages' = Tail(messages)
           /\ seen' = seen \cup {u}
           /\ body' = [NoBody EXCEPT !.stage = o.stage, !.att = o.att, !.emb = o.emb,
                                     !.silent = o.silent, !.parts = o.att + o.emb,
                                     !.parsed = IF o.stage = "unparsed" THEN body.parsed
                                                ELSE body.parsed \cup {u}]
           /\ pc' = IF o.stage = "panic" THEN "crashed" ELSE pc
           /\ dealtwith' = IF o.stage = "rejected" THEN dealtwith \cup {u} ELSE dealtwith
  /\ UNCHANGED <<cfg, mailVars, dbVars, cycle, seqset, Nmax, lastGoodUid, skipped,
                 toFetch, fpc, fres, msgClosed, done, n, recorded, released,
                 files, replies, parseVars>>

\* one pass of a loop of processImages: left is the number of parts not yet
\* looked at; the locals (ids: the number of ids in photoids) and the store
\* after the pass
ImagePass(left, rderr, conv, fail, stale, partial) ==
  IF rderr
  THEN [left |-> IF body.silent THEN left - 1 ELSE 0,
        photosok |-> IF body.silent THEN body.photosok ELSE FALSE,
        photoid |-> body.photoid, rows |-> photoCount, add |-> {}, ids |-> body.ids]
  ELSE LET w == writeImage(cfg.TestMode, conv, fail, stale, partial, photoCount)
           stop == w.photoid = 0 /\ ~cfg.TestMode
       IN  [left |-> IF stop THEN 0 ELSE left - 1,
            photosok |-> IF stop THEN FALSE ELSE body.photosok,
            photoid |-> w.photoid, rows |-> w.rows, add |-> w.add,
            ids |-> IF stop THEN body.ids ELSE body.ids + 1]

\* processImages, the loop over m.Attachments
AttachmentStep ==
  /\ pc = "loop" /\ body.stage = "images" /\ body.att > 0
  /\ \E rderr \in BOOLEAN, conv \in BOOLEAN, fail \in WriteFailures,
        stale \in 0..photoCount, partial \in BOOLEAN :
       LET r == ImagePass(body.att, rderr, conv, fail, stale, partial)
       IN  /\ r.rows <= MaxPhotoRows
           /\ body' = [body EXCEPT !.att = r.left, !.photosok = r.photosok,
                                   !.photoid = r.photoid, !.numphotos = @ + 1,
                                   !.ids = r.ids]
           /\ photoCount' = r.rows
           /\ files' = files \cup r.add
  /\ UNCHANGED <<cfg, mailVars, claimRows, pc, cycle, cycleVars, fetchVars, n, ghostVars,
                 replies, parseVars>>

\* processImages, the loop over m.EmbeddedFiles (it runs whatever the first did)
EmbeddedStep ==
  /\ pc = "loop" /\ body.stage = "images" /\ body.att = 0 /\ body.emb > 0
  /\ \E rderr \in BOOLEAN, conv \in BOOLEAN, fail \in WriteFailures,
        stale \in 0..photoCount, partial \in BOOLEAN :
       LET r == ImagePass(body.emb, rderr, conv, fail, stale, partial)
       IN  /\ r.rows <= MaxPhotoRows
           /\ body' = [body EXCEPT !.emb = r.left, !.photosok = r.photosok,
                                   !.photoid = r.photoid, !.numphotos = @ + 1,
                                   !.ids = r.ids]
           /\ photoCount' = r.rows
           /\ files' = files \cup r.add
  /\ UNCHANGED <<cfg, mailVars, claimRows, pc, cycle, cycleVars, fetchVars, n, ghostVars,
                 replies, parseVars>>

\* after processImages: the test response, or the INSERT into ebclaims
EndMessage ==
  /\ pc = "loop" /\ body.stage = "images" /\ body.att = 0 /\ body.emb = 0
  /\ IF cfg.TestMode
     THEN /\ replies' = [replies EXCEPT ![currentUid] = @ + 1]
          /\ body' = [body EXCEPT !.stage = "replied"]
          /\ UNCHANGED <<claimRows, dealtwith, skipped, lastGoodUid, recorded>>
     ELSE \E ierr \in BOOLEAN :
            LET ins == IF ierr
                       THEN InsertFailed(currentUid, dealtwith, skipped, lastGoodUid)
                       ELSE InsertDone(currentUid, dealtwith, skipped, lastGoodUid)
            IN  /\ dealtwith' = ins[1]
                /\ skipped' = ins[2]
                /\ lastGoodUid' = ins[3]
                /\ claimRows' = [claimRows EXCEPT ![currentUid] = IF ierr THEN @ ELSE @ + 1]
                /\ recorded' = IF ierr THEN recorded ELSE recorded \cup {currentUid}
                /\ body' = [body EXCEPT !.stage = IF ierr THEN "insertfailed" ELSE "inserted"]
                /\ UNCHANGED replies
  /\ UNCHANGED <<cfg, mailVars, photoCount, pc, cycle, seqset, Nmax, N, currentUid,
                 fetchVars, n, seen, released, files, parseVars>>

BodyNext ==
  \/ BeginMessage
  \/ AttachmentStep
  \/ EmbeddedStep
  \/ EndMessage

SpecBody == BodyInit /\ [][BodyNext]_vars

\* ------------------------------------------- validateEntrant, on its own
\* From addresses: a registered one, the same local part at another domain in
\* other case, a stranger, the mailbox's own address in two spellings, and a
\* From header mail.ParseAddress cannot read
AuthFroms ==
  Froms \cup { <<"R", "@", "z">>, ImapLogin, <<"B", "@", "X">>, NoAddress }

\* entrant ids: three rows of the table and an id the table does not have
AuthEntrants == {1, 2, 3, 9}

AuthCalls ==
  [EntrantID : AuthEntrants, from : AuthFroms, TestMode : BOOLEAN,
   MatchEmail : BOOLEAN, qerr : BOOLEAN, lerr : BOOLEAN, silent : BOOLEAN]

AuthInit ==
  /\ InitMain
  /\ ~cfg.TestMode /\ cfg.MaxFetch = 0
  /\ body = NoBody
  /\ files = {}
  /\ replies = [u \in UIDs |-> 0]
  /\ call \in AuthCalls
  /\ ret = NoRet

\* the call runs to its return, or panics
validateEntrantCall ==
  /\ ret.st = "none"
  /\ LET f4 == [ZeroF4 EXCEPT !.EntrantID = call.EntrantID]
         v  == validateEntrant(f4, call.from, call.TestMode, call.MatchEmail, call.qerr)
     IN  ret' = IF validateEntrantPanics(f4, call.from, call.TestMode, call.MatchEmail,
                                         call.qerr, call.lerr, call.silent)
                THEN [st |-> "panic", ve |-> FALSE, vea |-> FALSE]
                ELSE [st |-> "returned", ve |-> v[1], vea |-> v[2]]
  /\ UNCHANGED <<cfg, mailVars, dbVars, pc, cycle, cycleVars, fetchVars, n, ghostVars,
                 bodyVars, call>>

AuthNext == validateEntrantCall

SpecAuth == AuthInit /\ [][AuthNext]_vars

\* ------------------------------------------------------- the claim time
\* An instant is a number of minutes, counted from 00:00 UTC of day 0 of a
\* calendar window; a location is its offset from UTC in minutes (no change of
\* offset inside the window).  The window spans a month end: day 1 is the
\* 31st, day 2 the 1st of the next month.

\* cfg.LocalTZ: the rally timezone
Offsets == {-300, 0, 60}

\* t.In(loc).Date(): the calendar day of an instant in a location
DayOf(t, off) == (t + off) \div 1440

\* t.In(loc).Hour()*60 + Minute()
MinuteOfDay(t, off) == (t + off) % 1440

\* t.Day(): the day of the month of a calendar day
Dom(day) == ((day + 29) % 31) + 1

\* time.Date(y, m, d, hh, mm, 0, 0, loc)
DateAt(day, hh, mm, off) == day * 1440 + hh * 60 + mm - off

\* the zero time.Time (f4.ClaimTime when the subject gave a time of day only)
ZeroTime == -1000000

\* cfg.RallyStart and cfg.RallyFinish as wall-clock times of the rally
\* timezone: a rally of one day and one of three days
Rallies ==
  { [sday |-> 1, shh |-> 8, fday |-> 1, fhh |-> 20],
    [sday |-> 1, shh |-> 8, fday |-> 3, fhh |-> 16] }

RallyStart(r, off) == DateAt(r.sday, r.shh, 0, off)

RallyFinish(r, off) == DateAt(r.fday, r.fhh, 0, off)

\* (mutant) the day before is taken whenever the claimed time is more than an
\* hour after the sent time
calcClaimDate_NoDayTest(hh, mm, rfc822date, r, off) ==
  LET day == IF DayOf(RallyStart(r, off), off) = DayOf(RallyFinish(r, off), off)
             THEN DayOf(RallyStart(r, off), off)
             ELSE DayOf(rfc822date, off)
      cd  == DateAt(day, hh, mm, off)
  IN  IF cd - rfc822date > 60 THEN cd - 1440 ELSE cd

\* (mutant) the day before is taken for any claimed time after the sent time
calcClaimDate_NoGrace(hh, mm, rfc822date, r, off) ==
  LET day == IF DayOf(RallyStart(r, off), off) = DayOf(RallyFinish(r, off), off)
             THEN DayOf(RallyStart(r, off), off)
             ELSE DayOf(rfc822date, off)
      cd  == DateAt(day, hh, mm, off)
  IN  IF cd - rfc822date > 0
         /\ Dom(DayOf(cd, off)) # Dom(DayOf(RallyStart(r, off), off))
      THEN cd - 1440
      ELSE cd

\* calcClaimDate(hh, mm, rfc822date) for the rally r in the timezone off
calcClaimDate(hh, mm, rfc822date, r, off) ==
  LET day == IF DayOf(RallyStart(r, off), off) = DayOf(RallyFinish(r, off), off)
             THEN DayOf(RallyStart(r, off), off)
             ELSE DayOf(rfc822date, off)
      cd  == DateAt(day, hh, mm, off)
  IN  IF cd - rfc822date > 60
         /\ Dom(DayOf(cd, off)) # Dom(DayOf(RallyStart(r, off), off))
      THEN cd - 1440
      ELSE cd

\* (mutant) the text carries the wall-clock time with a UTC offset
storeTimeDB_Utc(t, off) ==
  [day |-> DayOf(t, off), hh |-> MinuteOfDay(t, off) \div 60,
   mm |-> MinuteOfDay(t, off) % 60, zone |-> 0]

\* storeTimeDB(t): t.Local().Format(time.RFC3339), time.Local being the rally
\* timezone: the text's date, hour, minute and zone offset
storeTimeDB(t, off) ==
  [day |-> DayOf(t, off), hh |-> MinuteOfDay(t, off) \div 60,
   mm |-> MinuteOfDay(t, off) % 60, zone |-> off]

\* time.ParseInLocation(time.RFC3339, ct, cfg.LocalTZ): the zone of the text
\* decides, the location is not used
ParseRfc3339(ct) ==
  [ok |-> ct.hh \in 0..23 /\ ct.mm \in 0..59,
   t  |-> DateAt(ct.day, ct.hh, ct.mm, ct.zone)]

\* ORDER BY ClaimTime: the texts in ascending order (they are all written by
\* storeTimeDB in the one rally timezone, so date, hour and minute decide)
RECURSIVE ByClaimTime(_)
ByClaimTime(rows) ==
  IF Len(rows) = 0 THEN <<>>
  ELSE LET key(ct) == ct.day * 1440 + ct.hh * 60 + ct.mm
           i == CHOOSE j \in 1..Len(rows) :
                  \A k \in 1..Len(rows) :
                     key(rows[j]) < key(rows[k]) \/ (key(rows[j]) = key(rows[k]) /\ j <= k)
       IN  <<rows[i]>> \o ByClaimTime(SubSeq(rows, 1, i - 1) \o SubSeq(rows, i + 1, Len(rows)))

\* (mutant) the query never finds the earlier claim
extractDateOfResentClaim_Miss(rows) == [ok |-> FALSE, t |-> ZeroTime]

\* extractDateOfResentClaim: rows are the ClaimTime texts of the claims with
\* the same entrant, bonus, odometer, hour and minute, in query order
extractDateOfResentClaim(rows) ==
  IF Len(rows) = 0 THEN [ok |-> FALSE, t |-> ZeroTime]
  ELSE ParseRfc3339(Head(rows))

\* the Date: headers of the messages
Sents ==
  { DateAt(0, 22, 0, 0), DateAt(1, 12, 0, 0), DateAt(2, 3, 30, 0), DateAt(3, 9, 0, 0) }

\* one claim: the time parseSubject took from the subject (a time of day, or
\* a full timestamp), the rally and its timezone
TimeCalls ==
  [hh : 0..23, mm : 0..59, ClaimTime : {ZeroTime}, rally : Rallies, tz : Offsets]
  \cup { [hh |-> MinuteOfDay(t, z) \div 60, mm |-> MinuteOfDay(t, z) % 60,
          ClaimTime |-> t, rally |-> r, tz |-> z] :
            t \in {DateAt(1, 12, 34, 0), DateAt(2, 0, 5, 0)}, r \in Rallies, z \in Offsets }

\* no message of the claim was handled yet: the claims table has no row for it
NoTimes == [st |-> "none", rows |-> <<>>, ts |-> <<>>, sents |-> <<>>, full |-> FALSE]

TimeInit ==
  /\ InitMain
  /\ ~cfg.TestMode /\ cfg.MaxFetch = 0
  /\ body = NoBody
  /\ files = {}
  /\ replies = [u \in UIDs |-> 0]
  /\ call \in TimeCalls
  /\ ret = NoTimes

\* a message of the claim, sent at m.Date, goes through the loop: f4.ClaimTime
\* is resolved and the INSERT writes it as storeTimeDB(f4.ClaimTime); the
\* message and a resend of it are handled, qr is the query of
\* extractDateOfResentClaim failing (a panic)
ClaimTimeStep ==
  /\ ret.st \in {"none", "recorded"}
  /\ Len(ret.ts) < 2
  /\ \E sent \in Sents, qr \in BOOLEAN :
       LET re == extractDateOfResentClaim(ByClaimTime(ret.rows))
           t  == IF call.ClaimTime # ZeroTime THEN call.ClaimTime
                 ELSE IF re.ok THEN re.t
                 ELSE calcClaimDate(call.hh, call.mm, sent, call.rally, call.tz)
       IN  ret' = IF call.ClaimTime = ZeroTime /\ qr
                  THEN [ret EXCEPT !.st = "panic"]
                  ELSE [ret EXCEPT !.st = "recorded",
                                   !.rows = @ \o <<storeTimeDB(t, call.tz)>>,
                                   !.ts = Append(@, t),
                                   !.sents = Append(@, sent)]
  /\ UNCHANGED <<cfg, mailVars, dbVars, pc, cycle, cycleVars, fetchVars, n, ghostVars,
                 bodyVars, call>>

TimeNext == ClaimTimeStep

SpecTime == TimeInit /\ [][TimeNext]_vars

\* the days a full timestamp in a subject can name
FullDays == {1, 2, 3}

\* another message for the same entrant, bonus, odometer, hour and minute
\* whose subject carries a full RFC 3339 timestamp: parseSubject sets
\* f4.ClaimTime, the loop takes it as it is and the INSERT writes it
FullTimeStep ==
  /\ ret.st \in {"none", "recorded"}
  /\ Len(ret.ts) < 2
  /\ call.ClaimTime = ZeroTime
  /\ \E d \in FullDays :
       LET t == DateAt(d, call.hh, call.mm, call.tz)
       IN  ret' = [ret EXCEPT !.st = "recorded",
                              !.rows = @ \o <<storeTimeDB(t, call.tz)>>,
                              !.ts = Append(@, t),
                              !.sents = Append(@, t),
                              !.full = TRUE]
  /\ UNCHANGED <<cfg, mailVars, dbVars, pc, cycle, cycleVars, fetchVars, n, ghostVars,
                 bodyVars, call>>

RowsNext == ClaimTimeStep \/ FullTimeStep

\* the claims of one entrant, bonus, odometer, hour and minute, from subjects
\* of either form
SpecRows == TimeInit /\ [][RowsNext]_vars

\* ---------------------------------------------------------------- startup
\* a configuration string: blank, or some text
Texts == { <<>>, <<"x">> }

\* the mail settings the configuration holds (at startup, or after a refresh)
MailConfigs ==
  [ImapServer : Texts, ImapLogin : Texts, ImapPassword : Texts, DontRun : BOOLEAN]

\* what the process is started with: the flags, the database file, whether
\* the rally data load, and the mail settings of the configuration read
StartCalls ==
  [showusage : BOOLEAN, path2db : {"", "missing", "db"}, yml : BOOLEAN,
   rally : BOOLEAN, mail : MailConfigs]

\* monitoringOK()
monitoringOK(m) ==
  ~m.DontRun /\ m.ImapPassword # <<>> /\ m.ImapServer # <<>> /\ m.ImapLogin # <<>>

\* init(): whether the process exits, and the error messages it printed
init(c) ==
  LET mailmsg == IF c.mail.ImapServer = <<>> \/ c.mail.ImapLogin = <<>> THEN {"email"}
                 ELSE IF c.mail.ImapPassword = <<>> THEN {"password"} ELSE {}
  IN  IF c.showusage THEN [exit |-> TRUE, msgs |-> {"usage"}]
      ELSE IF c.path2db = "" THEN [exit |-> TRUE, msgs |-> {"nodb"}]
      ELSE IF c.path2db = "missing" THEN [exit |-> TRUE, msgs |-> {"dbaccess"}]
      ELSE IF "email" \in mailmsg THEN [exit |-> TRUE, msgs |-> mailmsg]
      ELSE IF ~c.rally THEN [exit |-> TRUE, msgs |-> mailmsg \cup {"rally"}]
      ELSE [exit |-> FALSE, msgs |-> mailmsg]

\* the process has not started
NoStart ==
  [st |-> "none", msgs |-> {}, mail |-> [ImapServer |-> <<>>, ImapLogin |-> <<>>,
                                         ImapPassword |-> <<>>, DontRun |-> FALSE],
   monitoring |-> FALSE, polls |-> FALSE]

StartInit ==
  /\ InitMain
  /\ ~cfg.TestMode /\ cfg.MaxFetch = 0
  /\ body = NoBody
  /\ files = {}
  /\ replies = [u \in UIDs |-> 0]
  /\ call \in StartCalls
  /\ ret = NoStart

\* init() runs, then main() up to its loop
Startup ==
  /\ ret.st = "none"
  /\ ret' = IF init(call).exit
            THEN [ret EXCEPT !.st = "exited", !.msgs = init(call).msgs]
            ELSE [ret EXCEPT !.st = "loop", !.msgs = init(call).msgs,
                             !.mail = call.mail,
                             !.monitoring = monitoringOK(call.mail)]
  /\ UNCHANGED <<cfg, mailVars, dbVars, pc, cycle, cycleVars, fetchVars, n, ghostVars,
                 bodyVars, call>>

\* one pass of the loop of main(): a fetch cycle when monitoring, the sleep,
\* and, the configuration being the database's, its refresh
MainPass ==
  /\ ret.st = "loop"
  /\ \E m \in MailConfigs :
       LET new == IF call.yml THEN ret.mail ELSE m
       IN  ret' = [ret EXCEPT !.polls = @ \/ ret.monitoring,
                              !.mail = new,
                              !.monitoring = IF call.yml THEN @ ELSE monitoringOK(new)]
  /\ UNCHANGED <<cfg, mailVars, dbVars, pc, cycle, cycleVars, fetchVars, n, ghostVars,
                 bodyVars, call>>

StartNext == Startup \/ MainPass

SpecStart == StartInit /\ [][StartNext]_vars

\* ------------------------------------------- the subject and the text body
\* a text of a message (m.Subject, m.TextBody): whether it is the empty
\* string, and the submatch list the lenient pattern yields for it
EmptyText == [empty |-> TRUE, ff |-> <<>>]

MessageTexts == {EmptyText} \cup [empty : {FALSE}, ff : Subjects]

SubjectCalls == [Subject : MessageTexts, TextBody : MessageTexts, AllowBody : BOOLEAN]

\* the loop has not looked at the subject
NoSubject == [st |-> "none", f4 |-> ZeroF4, Subject |-> EmptyText, SubjectFromBody |-> FALSE]

SubjectInit ==
  /\ InitMain
  /\ ~cfg.TestMode /\ cfg.MaxFetch = 0
  /\ body = NoBody
  /\ files = {}
  /\ replies = [u \in UIDs |-> 0]
  /\ call \in SubjectCalls
  /\ ret = NoSubject

\* f4 := parseSubject(m.Subject, false), then the text body in its place when
\* the subject is empty and cfg.AllowBody is set
SubjectStep ==
  /\ ret.st = "none"
  /\ LET fromSubject == parseSubject(call.Subject.ff, FALSE)
         fromBody    == parseSubject(call.TextBody.ff, FALSE)
         useBody     == call.Subject.empty /\ call.AllowBody
     IN  ret' = IF \/ parseSubjectPanics(call.Subject.ff, FALSE)
                   \/ (useBody /\ parseSubjectPanics(call.TextBody.ff, FALSE))
                THEN [ret EXCEPT !.st = "panic"]
                ELSE [st |-> "parsed",
                      f4 |-> IF useBody THEN fromBody ELSE fromSubject,
                      Subject |-> IF useBody /\ fromBody.ok THEN call.TextBody
                                  ELSE call.Subject,
                      SubjectFromBody |-> useBody /\ fromBody.ok]
  /\ UNCHANGED <<cfg, mailVars, dbVars, pc, cycle, cycleVars, fetchVars, n, ghostVars,
                 bodyVars, call>>

SubjectNext == SubjectStep

SpecSubject == SubjectInit /\ [][SubjectNext]_vars

\* ------------------------------------------------------------ properties
Live == ~cfg.TestMode

InCycle == pc \in {"loop", "recv", "ackD", "ackS"}

\* fetchNewClaims has returned and main() has not yet started the next cycle
Returned == pc \in {"ackD", "ackS", "sleep"}

\* the iteration ran validateEntrant and validateBonus
Validated(it) == it.stage \in {"rejected", "tested", "insert"}

Its == Iterations[cfg.TestMode, cfg.MatchEmail]

\* C1: in live mode every message delivered in a cycle is, when fetchNewClaims
\* returns, recorded as a claim, in the dealt-with set or in the skipped set.
C1_DeliveredAccounted ==
  (Returned /\ Live) => seen \subseteq (recorded \cup dealtwith \cup skipped)

\* C2: when the fetch stream reports an error in a live cycle, every UID of the
\* batch that was not delivered to the message loop is in the skipped set.
C2_UndeliveredSkipped ==
  (Returned /\ Live /\ seqset # {} /\ fres = "err") => (seqset \ seen) \subseteq skipped

\* the batch is u..u+n-1 and the stream failed after k messages, 1 <= k < n,
\* the k-th of which was recorded
C3_Case ==
  /\ Returned /\ Live /\ fres = "err"
  /\ seqset # {} /\ seen # {} /\ seen # seqset
  /\ \A a \in seqset, b \in seqset : \A x \in a..b : x \in seqset
  /\ currentUid \in recorded
  /\ lastGoodUid = currentUid
  /\ \A x \in seen : x <= currentUid

\* C3: for a batch of consecutive UIDs u..u+n-1 delivered in ascending order,
\* a stream failure after k messages (1 <= k < n), the k-th recorded, makes
\* the recovery rule add exactly u+k..u+n-1 to the retry set.
C3_RecoveryExact == C3_Case => released = seqset \ seen

C3_Witness == C3_Case /\ Cardinality(released) >= 2 /\ Cardinality(seen) >= 1

\* C4: a mailbox message yields at most one claim row over any sequence of
\* live cycles.
C4_AtMostOneRow == \A u \in UIDs : claimRows[u] <= 1

\* a step of the message loop in live mode
LiveIteration == pc = "loop" /\ Live /\ N' = N + 1

\* C5: in live mode a message whose subject does not parse to a valid claim
\* (ok = false) is never inserted and its UID goes to the dealt-with set.
C5_UnparsedRejected ==
  [][LiveIteration =>
       \A it \in {x \in Its : Validated(x) /\ ~x.ok} :
          Process(it) => (claimRows' = claimRows /\ Head(messages) \in dealtwith')]_vars

\* C6: in live mode a message whose sender validateEntrant reports not
\* authorized is not inserted: its UID goes to the dealt-with set, lastGoodUid
\* is unchanged and no photo of it is stored.
C6_UnauthorizedRejected ==
  [][LiveIteration =>
       \A it \in {x \in Its : Validated(x) /\ ~x.vea} :
          Process(it) => /\ claimRows' = claimRows
                         /\ Head(messages) \in dealtwith'
                         /\ lastGoodUid' = lastGoodUid
                         /\ photoCount' = photoCount]_vars

C6_Witness == pc = "loop" /\ Live /\ N > 0 /\ currentUid \in dealtwith

\* C7: in live mode a message whose bonus is not in the bonus table is not
\* inserted and its UID goes to the dealt-with set.
C7_UnknownBonusRejected ==
  [][LiveIteration =>
       \A it \in {x \in Its : Validated(x) /\ ~x.vb} :
          Process(it) => (claimRows' = claimRows /\ Head(messages) \in dealtwith')]_vars

\* C8: in live mode, when an image read or image write fails for a message,
\* the message goes to the skipped set, not to the dealt-with set, and no
\* claim row is inserted for it in that cycle.
C8_ImageFailureSkipped ==
  [][LiveIteration =>
       \A it \in {x \in Its : x.stage = "insert" /\ ~x.photosok} :
          Process(it) => /\ Head(messages) \in skipped'
                         /\ Head(messages) \notin dealtwith'
                         /\ claimRows' = claimRows]_vars

\* C9: in live mode a failed claim INSERT puts the UID in the skipped set and
\* not in the dealt-with set, leaves lastGoodUid unchanged, and the loop goes
\* on with the next message.
C9_InsertFailureSkipped ==
  [][LiveIteration =>
       \A it \in {x \in Its : x.insert = "failed"} :
          Process(it) => /\ Head(messages) \in skipped'
                         /\ Head(messages) \notin dealtwith'
                         /\ lastGoodUid' = lastGoodUid
                         /\ claimRows' = claimRows
                         /\ pc' = "loop"
                         /\ messages' = Tail(messages)]_vars

C9_Witness ==
  pc = "loop" /\ Live /\ N > 0 /\ currentUid \in skipped /\ currentUid \notin recorded

\* C10: a message flagged as dealt with in an earlier cycle keeps its flags in
\* every later cycle (and so is never offered again).
C10_DealtWithStaysFlagged ==
  [][\A u \in UIDs :
       (InCycle /\ u \notin dealtwith /\ flags[u] = {"Flagged"})
         => flags'[u] = {"Flagged"}]_vars

C12_BoundedTries ==
  [][(pc \in {"ackD", "ackS"}) =>
       (/\ n \in 1..maxTries
        /\ (cfg.TestMode \/ AckSet = {}) =>
              (~FlagOk /\ ~FlagFail /\ pc' = AckNext /\ flags' = flags)
        /\ FlagOk => pc' = AckNext
        /\ FlagFail => (IF n = 1 THEN pc' = AckNext ELSE (pc' = pc /\ n' = n - 1)))]_vars

C12_Witness == pc \in {"ackD", "ackS"} /\ Live /\ AckSet # {} /\ n = 1

\* ------------------------------------------------- parseSubject properties
\* the call has returned for a match that has a time token
Parsed == ret.st = "returned" /\ Len(call.ff) >= 5

\* the time token with ':' and '.' removed
Typed == Strip(Strip(call.ff[5], ":"), ".")

\* the typed digits denote no time of day: more than four of them, or the
\* hour (all but the last two digits) or the minute (the last two) out of range
BadTime(d) ==
  /\ Len(d) > 0 /\ AllDigits(d)
  /\ (Len(d) > 4 \/ DigitsValue(d) \div 100 >= 24 \/ DigitsValue(d) % 100 >= 60)

\* C17: a parseSubject result with ok = true has TimeOk = true and all of
\* entrant, bonus, odometer and time taken from the match, whatever the number
\* of capture groups of the pattern; in strict mode a match with fewer than
\* four fields gives ok = false.
C17_OkMeansAllFields ==
  (ret.st = "returned") =>
     ((ret.f4.ok => (ret.f4.TimeOk /\ Len(call.ff) >= 5))
      /\ ((call.formal /\ Len(call.ff) < 5) => ~ret.f4.ok))

\* C18: a subject whose time token, ':' and '.' removed, is a digit string
\* with an hour >= 24, a minute >= 60 or more than four digits gives ok = false.
C18_BadTimeRejected == (Parsed /\ BadTime(Typed)) => ~ret.f4.ok

C18_Witness ==
  Parsed /\ BadTime(Typed) /\ call.ff[5] = Tok20099 /\ ~ret.f4.ok /\ ret.f4.EntrantID = 1

\* C19: in lenient mode a four-digit time token HHMM with HH < 24 and MM < 60
\* gives ok = true with TimeHH = HH and TimeMM = MM ('1 2 3 1234' gives entrant
\* 1, bonus '2', odometer 3 and 12:34).
C19_FourDigitTime ==
  (Parsed /\ ~call.formal /\ Len(call.ff[5]) = 4 /\ AllDigits(call.ff[5])
     /\ DigitsValue(SubSeq(call.ff[5], 1, 2)) < 24
     /\ DigitsValue(SubSeq(call.ff[5], 3, 4)) < 60) =>
    (/\ ret.f4.ok
     /\ ret.f4.TimeHH = DigitsValue(SubSeq(call.ff[5], 1, 2))
     /\ ret.f4.TimeMM = DigitsValue(SubSeq(call.ff[5], 3, 4))
     /\ ret.f4.TimeHH * 60 + ret.f4.TimeMM =
          DigitsValue(SubSeq(call.ff[5], 1, 2)) * 60 + DigitsValue(SubSeq(call.ff[5], 3, 4))
     /\ ret.f4.EntrantID = 1 /\ ret.f4.BonusID = <<"2">> /\ ret.f4.OdoReading = 3)

C19_Witness ==
  /\ Parsed /\ ~call.formal /\ call.ff[5] = Tok1234
  /\ ret.f4.ok /\ ret.f4.TimeHH = 12 /\ ret.f4.TimeMM = 34

\* C20: a time token that is no full timestamp and has one to four digits
\* once ':' and '.' are removed is read as those digits left-padded with zeros
\* to four: hour and minute are the padded value's, and it is accepted exactly
\* when hour < 24 and minute < 60 ('930' and '9:30' give 09:30, '5' gives 00:05).
C20_PaddedTime ==
  (Parsed /\ ~Rfc3339Ok(call.ff[5]) /\ Len(Typed) \in 1..4 /\ AllDigits(Typed)) =>
    (/\ ret.f4.TimeHH = DigitsValue(Typed) \div 100
     /\ ret.f4.TimeMM = DigitsValue(Typed) % 100
     /\ ret.f4.TimeOk <=> (DigitsValue(Typed) \div 100 < 24 /\ DigitsValue(Typed) % 100 < 60))

\* ------------------------------------------------- message loop properties
\* C13: no failure of a collaborator in a cycle ends the process: the loop
\* body never panics, whatever query fails and whatever the From header is.
C13_NoFatal == pc # "crashed"

\* C14: while test mode is on, no step of the loop inserts a claim row,
\* inserts a photo row or writes an image file.
C14_TestModeWritesNothing ==
  [][cfg.TestMode =>
       (claimRows' = claimRows /\ photoCount' = photoCount /\ files' = files)]_vars

C14_Witness ==
  /\ cfg.TestMode /\ body.stage = "replied" /\ body.numphotos > 0
  /\ replies[currentUid] = 1

\* C15: in test mode every message that was delivered and parsed gets exactly
\* one test response once the loop is done with it (none yet while its
\* attachments are being read), and none is put in the dealt-with set.
C15_TestReplyOnce ==
  cfg.TestMode =>
    (/\ dealtwith = {}
     /\ \A u \in body.parsed :
          replies[u] = IF u = currentUid /\ body.stage = "images" THEN 0 ELSE 1)

\* C16: in live mode photo rows and image files correspond one to one after
\* any writeImage call: the photo ids that have a file are exactly the ids of
\* the committed rows.
C16_RowsMatchFiles ==
  ~cfg.TestMode => {f[1] : f \in files} = 1..photoCount

\* --------------------------------------------- the sets and the two counters
\* C27: when fetchNewClaims returns, also after a fetch error and the recovery
\* rule, the dealt-with set and the skipped set have no UID in common and no
\* UID recorded as a claim in that cycle is in either set.
C27_SetsDisjoint ==
  Returned => (/\ dealtwith \cap skipped = {}
               /\ recorded \cap (dealtwith \cup skipped) = {})

\* C28: every UID of the two sets fetchNewClaims returns is a UID of the batch
\* it requested, and the acknowledge calls change the flags of no message
\* outside that batch.
C28_SetsWithinBatch ==
  [][(Returned => (dealtwith \cup skipped) \subseteq seqset)
     /\ ((pc \in {"ackD", "ackS"}) =>
           (\A u \in UIDs \ seqset : flags'[u] = flags[u]))]_vars

\* C29: lastGoodUid changes only in a message loop iteration whose INSERT
\* succeeds, and then becomes the UID of that message; every step that writes
\* a claim row sets it; so it is the UID of the claim recorded last, and an
\* iteration ending any other way (rejected, failed INSERT, no body, parse
\* error, test mode) leaves it alone.
C29_LastGoodUid ==
  [][(/\ (lastGoodUid' # lastGoodUid) =>
            (/\ pc = "loop" /\ messages # <<>>
             /\ lastGoodUid' = Head(messages)
             /\ claimRows'[Head(messages)] = claimRows[Head(messages)] + 1)
      /\ (\A u \in UIDs : (claimRows'[u] # claimRows[u]) => (lastGoodUid' = u))
      /\ (\A u \in recorded' : u <= lastGoodUid'))]_vars

C29_Witness ==
  /\ pc = "loop" /\ Live
  /\ lastGoodUid \in recorded
  /\ currentUid > lastGoodUid
  /\ currentUid \in dealtwith \cup skipped

\* C30: currentUid and lastGoodUid are reset at the start of every fetch
\* cycle: when the message loop of a cycle begins both are 0.
C30_CountersReset ==
  (pc = "loop" /\ N = 0) => (currentUid = 0 /\ lastGoodUid = 0)

\* ----------------------------------------------- validateEntrant properties
\* validateEntrant has returned and found the entrant
Authd == ret.st = "returned" /\ ret.ve

\* the rows validateEntrant selected for the call
AuthRows == SelectRows(Entrants, call.EntrantID, fetchTeamID(call.EntrantID))

\* From is one of the registered addresses of the rows, ignoring case
FullMatch ==
  \E i \in 1..Len(RowEmails(AuthRows)) : EqualFold(RowEmails(AuthRows)[i], call.from)

\* From has the local part of one of the registered addresses, ignoring case
LocalMatch ==
  \E i \in 1..Len(RowEmails(AuthRows)) :
     EqualFold(LocalPart(RowEmails(AuthRows)[i]), LocalPart(call.from))

OwnAddress == EqualFold(call.from, ImapLogin)

Named == ~EqualFold(AuthRows[1].RiderName, <<>>)

\* C23 (as stated): with address matching enabled, a sender matching no
\* registered address in full but one of them in its local part is authorized,
\* and a sender matching none in full or in its local part is not.
C23_LocalPartAsStated ==
  (Authd /\ call.MatchEmail /\ ~FullMatch) => (ret.vea <=> LocalMatch)

\* C23 (amended): with address matching enabled and an entrant whose rider
\* name is not blank, a sender matching no registered address in full but one
\* of them in its local part is authorized; a sender matching none in full or
\* in its local part, and not writing from the mailbox's own address, is not.
C23_LocalPartFallback ==
  (Authd /\ call.MatchEmail /\ ~FullMatch) =>
     (/\ (LocalMatch /\ Named) => ret.vea
      /\ (~LocalMatch /\ ~OwnAddress) => ~ret.vea)

C23_Witness ==
  /\ Authd /\ call.MatchEmail /\ ~FullMatch /\ LocalMatch /\ Named
  /\ call.from = <<"R", "@", "z">> /\ ret.vea

\* C24: a message from the mailbox's own address (ignoring case) is authorized
\* for every entrant validateEntrant finds, whatever addresses the entrant has
\* registered, none at all included.
C24_OwnAddressAuthorized ==
  (Authd /\ OwnAddress) => ret.vea

\* C25 (as stated): with address matching disabled, the sender is authorized
\* whenever the entrant is found, in live and in test mode, whatever From is.
C25_NoMatchingAsStated ==
  (Authd /\ ~call.MatchEmail) => ret.vea

\* C25 (amended): with address matching disabled, in live mode the sender is
\* authorized whenever the entrant is found and its rider name is not blank,
\* whatever From is; in test mode the sender is authorized only when From is
\* the mailbox's own address or matches, in full or in its local part, an
\* address of some entrant of the table.
C25_NoMatchingLive ==
  (Authd /\ ~call.MatchEmail) =>
     (/\ (~call.TestMode /\ Named) => ret.vea
      /\ (call.TestMode /\ ret.vea) =>
            (\/ OwnAddress
             \/ \E i \in 1..Len(listValidTestAddresses) :
                   EqualFold(LocalPart(listValidTestAddresses[i]), LocalPart(call.from))))

C25_Witness ==
  /\ Authd /\ ~call.MatchEmail /\ ~call.TestMode /\ Named
  /\ ~FullMatch /\ ~LocalMatch /\ ~OwnAddress /\ ret.vea

\* ---------------------------------------------------- claim time properties
\* the subject gave a time of day only
BareTime == call.ClaimTime = ZeroTime

OneDayRally ==
  DayOf(RallyStart(call.rally, call.tz), call.tz) = DayOf(RallyFinish(call.rally, call.tz), call.tz)

\* C21: for a rally that starts and finishes on the same calendar date,
\* calcClaimDate returns a timestamp on that date, for every hour and minute
\* of the day and every sent time, before, on or after the rally date.
C21_OneDayRallyDate ==
  (BareTime /\ OneDayRally /\ Len(ret.ts) >= 1) =>
     (/\ ret.ts[1] = calcClaimDate(call.hh, call.mm, ret.sents[1], call.rally, call.tz)
      /\ DayOf(ret.ts[1], call.tz) = DayOf(RallyStart(call.rally, call.tz), call.tz)
      /\ MinuteOfDay(ret.ts[1], call.tz) = call.hh * 60 + call.mm)

C21_Witness ==
  /\ BareTime /\ OneDayRally /\ Len(ret.ts) >= 1
  /\ ret.ts[1] - ret.sents[1] > 60
  /\ DayOf(ret.sents[1], call.tz) < DayOf(ret.ts[1], call.tz)

\* C22: when a claim is resolved again for a resend, with the row of the first
\* resolution in the claims table, the instant is the one resolved the first
\* time: the text storeTimeDB wrote reads back as the instant that was
\* recorded, whatever the sent time of the second message.
C22_ResendSameInstant ==
  (Len(ret.ts) = 2) =>
     (/\ ret.ts[2] = ret.ts[1]
      /\ ParseRfc3339(ret.rows[1]).ok
      /\ ParseRfc3339(ret.rows[1]).t = ret.ts[1]
      /\ ret.rows[2] = ret.rows[1])

C22_Witness ==
  /\ BareTime /\ ~OneDayRally /\ Len(ret.ts) = 2
  /\ ret.sents[2] # ret.sents[1]
  /\ calcClaimDate(call.hh, call.mm, ret.sents[2], call.rally, call.tz) # ret.ts[1]
  /\ ret.ts[2] = ret.ts[1]

\* --------------------------------------------------------- startup property
\* C26: started with no mail server or no login configured, or with a blank
\* mailbox password, the program prints an error message and exits; it never
\* gets to its polling loop.
C26_NoMailNoStart ==
  (/\ ret.st # "none"
   /\ \/ call.mail.ImapServer = <<>>
      \/ call.mail.ImapLogin = <<>>
      \/ call.mail.ImapPassword = <<>>)
  => (ret.st = "exited" /\ ret.msgs # {} /\ ~ret.polls)

\* ------------------------------------------------- the batch and the queue
\* C31: with cfg.MaxFetch = M >= 1 a cycle requests at most M messages, the
\* first M of the search result in its order; with M < 1 it requests every
\* search result; Nmax, the size used for the queue and by the recovery rule,
\* is the number of messages requested; and a cycle whose search finds
\* nothing fetches nothing and changes no flag.
C31_BatchCapped ==
  [][(pc = "idle" /\ cycle' = cycle + 1) =>
       (IF pc' = "loop"
        THEN (/\ seqset' = Range(toFetch')
              /\ Nmax' = Cardinality(seqset') /\ Nmax' = Len(toFetch')
              /\ (\A i \in 1..Len(toFetch') : toFetch'[i] = Search[i])
              /\ (IF cfg.MaxFetch >= 1
                  THEN (Nmax' <= cfg.MaxFetch
                        /\ (Nmax' = cfg.MaxFetch \/ Nmax' = Len(Search)))
                  ELSE Nmax' = Len(Search)))
        ELSE (/\ flags' = flags /\ fpc' = fpc /\ toFetch' = toFetch
              /\ seqset' = {} /\ dealtwith' = {} /\ skipped' = {}))]_vars

C31_Witness ==
  /\ pc = "loop" /\ N = 0 /\ cfg.MaxFetch >= 1
  /\ Nmax = cfg.MaxFetch
  /\ \E u \in UIDs \ seqset : flags[u] \cap SelectFlags = {}

\* C32: the fetch task never waits for the consumer when it pushes a message
\* of the batch: the message channel has room whenever a message is still to
\* be pushed, and its capacity is at least the batch size, in every cycle and
\* however far the message loop lags behind.
C32_QueueNeverFull ==
  (pc \in {"loop", "recv"}) =>
     (/\ Capacity(Nmax) >= Cardinality(seqset)
      /\ (fpc = "run" /\ toFetch # <<>>) => (Len(messages) < Capacity(Nmax)))

C32_Witness ==
  /\ pc = "loop" /\ N = 0 /\ Nmax = MaxUid
  /\ Len(messages) = Nmax /\ fpc = "sent"

Candidate == DateAt(DayOf(ret.sents[1], call.tz), call.hh, call.mm, call.tz)

C35_RowsAgreeAsStated ==
  \A i, j \in 1..Len(ret.rows) : ParseRfc3339(ret.rows[i]).t = ParseRfc3339(ret.rows[j]).t

\* C35 (amended): after any sequence of accepted live-mode messages whose
\* subjects give the time of day only, the claim rows of one entrant, bonus,
\* odometer, hour and minute all carry the same claim timestamp, whatever the
\* sent dates of the messages and their order.
C35_TimeOfDayRowsAgree ==
  (BareTime /\ ~ret.full) =>
     (\A i, j \in 1..Len(ret.rows) :
         ret.rows[i] = ret.rows[j] /\ ParseRfc3339(ret.rows[i]).t = ret.ts[1])

C35_Witness ==
  /\ BareTime /\ ~ret.full /\ ~OneDayRally /\ Len(ret.rows) = 2
  /\ DayOf(ret.sents[2], call.tz) < DayOf(ret.sents[1], call.tz)
  /\ ret.rows[2] = ret.rows[1]

\* ------------------------------------------------------ the photos of a claim
\* processImages has returned for the message in hand
ImagesDone == pc = "loop" /\ body.stage = "images" /\ body.att = 0 /\ body.emb = 0

\* C36: in live mode processImages returns photosok = true only when every
\* attachment and embedded file was read and stored under a non-zero photo
\* id: a read error or a failed image write gives photosok = false whatever
\* the logging flags, and with photosok = true the photo count is the number
\* of attachments plus embedded files and photoids holds one id for each.
C36_PhotosOkMeansAllStored ==
  (ImagesDone /\ ~cfg.TestMode /\ body.photosok) =>
     (body.numphotos = body.parts /\ body.ids = body.parts)

\* C37: in live mode every writeImage call that returns a photo id returns
\* the id of the row it inserted itself: not zero, the id of a new row, and
\* not the id under which an earlier call stored a file.
C37_OwnPhotoId ==
  [][(~cfg.TestMode /\ body'.ids = body.ids + 1) =>
       (/\ body'.photoid # 0
        /\ photoCount' = photoCount + 1
        /\ body'.photoid = photoCount'
        /\ \A f \in files : f[1] # body'.photoid)]_vars

\* ------------------------------------------------------- the body fallback
\* C38: with cfg.AllowBody set, a message whose subject does not parse as a
\* claim (an empty subject, or a non-empty one the lenient parse rejects) has
\* its text body parsed as the claim: when that parse is ok the body text
\* takes the subject's place in the claim, and when it is not the message is
\* a parse failure.
C38_BodyFallback ==
  (ret.st = "parsed" /\ call.AllowBody /\ ~parseSubject(call.Subject.ff, FALSE).ok) =>
     (/\ ret.f4 = parseSubject(call.TextBody.ff, FALSE)
      /\ ret.f4.ok => (ret.Subject = call.TextBody /\ ret.SubjectFromBody)
      /\ ~ret.f4.ok => (ret.Subject = call.Subject /\ ~ret.SubjectFromBody))

====
